---------------------------- MODULE Spec2Model ----------------------------
(***************************************************************************)
(* A model of scripts/DiffUE.py: the directory searches that locate the    *)
(* repository root and the .uproject file, and the pipeline of main() that *)
(* finds the asset's last revision, classifies it as LFS or inline, and    *)
(* materializes the old content before launching the diff tool.            *)
(*                                                                         *)
(* Python strings are sequences of one-character strings and byte strings  *)
(* are sequences of numbers.  None and "" are both the empty sequence:     *)
(* every test the script makes on them is a truthiness test.               *)
(***************************************************************************)
EXTENDS Integers, Sequences, FiniteSets, TLC

VARIABLES
    \* ---- the directory tree and the anchor searches ----
    fs_markers,        \* directories that hold a file p.uproject
    fs_gits,           \* directories that hold a directory .git
    git_has_marker,    \* whether each .git directory holds a p.uproject
    scan_desc,         \* os.scandir lists in descending (TRUE) or ascending order
    cwd,               \* os.getcwd()
    asset_is_file,     \* os.path.isfile of the asset argument
    spc,               \* position in main(), lines 277-279
    path,              \* local of the two upward loops
    entry_path,        \* local of find_entry_in_dir / find_entry_in_dir_up
    last_slash_index,  \* local of the two upward loops
    dirs_to_check,     \* local of find_entry_in_dir
    git_root,          \* local of find_git_root, then of main()
    project_path,      \* result of get_project_path
    scans,             \* number of os.scandir calls of the current loop
    git_scans,         \* number of os.scandir calls find_git_root made
    down_result,       \* what find_entry_in_dir returned
    up_result,         \* what find_entry_in_dir_up returned
    \* ---- main() from line 280 on ----
    os_sep,            \* os.sep of the platform
    asset_path,        \* main()'s asset_path
    ue_bin_env,        \* os.environ's UE_DIFF_BIN, None when unset
    lfs_objects,       \* the regular files below the LFS media directories
    rpc,               \* position in main(), lines 280-289
    cmds,              \* the external commands started so far, in order
    revision_output,   \* stdout of git log
    revision,          \* main()'s revision
    lfs_listing,       \* the lines git lfs ls-files printed
    lfs_files_output,  \* stdout of git lfs ls-files
    lookup_path,       \* git_is_lfs's git_asset_path
    is_lfs,            \* main()'s is_lfs
    env_media,         \* the LocalMediaDir values git lfs env reported
    lfs_envs_output,   \* stdout of git lfs env
    lfs_media_dir,     \* diff_lfs's lfs_media_dir
    oid_reported,      \* the object ids git cat-file printed
    oid_output,        \* stdout of git cat-file
    asset_oid,         \* diff_lfs's asset_oid
    left_asset_path,   \* diff_lfs's left_asset_path
    tmp_dirs,          \* the temporary directories that exist
    files,             \* the files in them: path -> bytes
    tmp_path,          \* diff_normal's tmp_path
    raw_contents,      \* stdout of git show
    cmd_parts          \* the argument list the diff tool was started with

search_vars == <<fs_markers, fs_gits, git_has_marker, scan_desc, cwd, asset_is_file,
                 spc, path, entry_path, last_slash_index, dirs_to_check, git_root,
                 project_path, scans, git_scans, down_result, up_result>>

run_env == <<os_sep, asset_path, ue_bin_env, lfs_objects>>

rev_locals == <<revision_output, revision>>

classify_locals == <<lfs_listing, lfs_files_output, lookup_path, is_lfs>>

lfs_locals == <<env_media, lfs_envs_output, lfs_media_dir, oid_reported, oid_output,
                asset_oid, left_asset_path>>

normal_locals == <<tmp_dirs, files, tmp_path, raw_contents>>

run_vars == <<run_env, rpc, cmds, rev_locals, classify_locals, lfs_locals,
              normal_locals, cmd_parts>>

vars == <<search_vars, run_vars>>

---------------------------------------------------------------------------
(* Python string helpers *)

None == <<>>

Max(a, b) == IF a > b THEN a ELSE b

Min(a, b) == IF a < b THEN a ELSE b

\* s[a:b]
PySlice(s, a, b) ==
    LET lo == IF a < 0 THEN Max(Len(s) + a, 0) ELSE Min(a, Len(s))
        hi == IF b < 0 THEN Max(Len(s) + b, 0) ELSE Min(b, Len(s))
    IN  IF hi <= lo THEN <<>> ELSE SubSeq(s, lo + 1, hi)

\* s[a:]
PySliceFrom(s, a) == PySlice(s, a, Len(s))

\* "".join(reversed(s))
Reversed(s) == [i \in 1..Len(s) |-> s[Len(s) + 1 - i]]

\* s.index(c) for a one-character c; -1 stands for the ValueError
PyIndex(s, c) ==
    IF \E i \in 1..Len(s) : s[i] = c
    THEN (CHOOSE i \in 1..Len(s) : s[i] = c /\ \A j \in 1..(i - 1) : s[j] # c) - 1
    ELSE -1

last_index(input, sep) ==
    LET r == PyIndex(Reversed(input), sep)
    IN  IF r = -1 THEN -1 ELSE Len(input) - r - 1

\* s.endswith(suffix)
EndsWith(s, suffix) ==
    /\ Len(s) >= Len(suffix)
    /\ SubSeq(s, Len(s) - Len(suffix) + 1, Len(s)) = suffix

\* s.startswith(prefix)
StartsWith(s, prefix) ==
    /\ Len(s) >= Len(prefix)
    /\ SubSeq(s, 1, Len(prefix)) = prefix

\* needle in s, for strings
Contains(s, needle) ==
    \E i \in 0..(Len(s) - Len(needle)) : SubSeq(s, i + 1, i + Len(needle)) = needle

\* os.path.join(a, b) with separator sep: an absolute b replaces a
PathJoin(a, b, sep) ==
    IF Len(b) > 0 /\ b[1] = sep THEN b
    ELSE IF a = <<>> \/ a[Len(a)] = sep THEN a \o b
    ELSE a \o <<sep>> \o b

---------------------------------------------------------------------------
(* The directory tree: the complete tree of directories named a and b down *)
(* to MaxDepth below /, some holding a file p.uproject, some a directory   *)
(* .git (which may itself hold a p.uproject).                              *)

MaxDepth == 2

MaxMarkers == 2

MaxGits == 2

\* os.sep on the platform the searches are modelled on
PosixSep == "/"

DirNames == {"a", "b"}

DotGit == <<".", "g", "i", "t">>

DotUproject == <<".", "u", "p", "r", "o", "j", "e", "c", "t">>

MarkerName == <<"p">> \o DotUproject

RootDir == <<PosixSep>>

RECURSIVE DirsAt(_)
DirsAt(n) ==
    IF n = 0 THEN {RootDir}
    ELSE {PathJoin(d, <<x>>, PosixSep) : d \in DirsAt(n - 1), x \in DirNames}

AllDirs == UNION {DirsAt(n) : n \in 0..MaxDepth}

\* number of path segments: 0 for /, 2 for /a/b
NumSegments(p) ==
    Cardinality({i \in 1..Len(p) : p[i] # PosixSep /\ (i = 1 \/ p[i - 1] = PosixSep)})

DirEntry(dir, name, isdir) ==
    [name |-> name, path |-> PathJoin(dir, name, PosixSep), is_dir |-> isdir]

\* the entries of directory dir, in ascending name order
ListingAsc(dir) ==
    (IF dir \in fs_gits THEN <<DirEntry(dir, DotGit, TRUE)>> ELSE <<>>)
    \o (IF dir \in AllDirs /\ NumSegments(dir) < MaxDepth
        THEN <<DirEntry(dir, <<"a">>, TRUE), DirEntry(dir, <<"b">>, TRUE)>>
        ELSE <<>>)
    \o (IF dir \in fs_markers
           \/ (git_has_marker /\ \E g \in fs_gits : dir = PathJoin(g, DotGit, PosixSep))
        THEN <<DirEntry(dir, MarkerName, FALSE)>> ELSE <<>>)

\* os.scandir(dir)
Scandir(dir) == IF scan_desc THEN Reversed(ListingAsc(dir)) ELSE ListingAsc(dir)

SmallSubsets(S, n) == {T \in SUBSET S : Cardinality(T) <= n}

---------------------------------------------------------------------------
(* main(), lines 277-279: find_git_root, get_valid_asset_path and          *)
(* get_project_path, one action per loop iteration and per return.         *)

\* get_project_path's predicate, lines 112-113
predicate(entry) == EndsWith(entry.name, DotUproject)

\* find_git_root's test, line 72
IsDotGit(entry) == entry.name = DotGit

\* line 33: entry.name != ".git"
NotDotGit(entry) == entry.name # DotGit

IsDir(entry) == entry.is_dir

\* the loop condition of lines 50 and 69
UpLoopCond(found) == path # <<>> /\ found = None /\ last_slash_index > 0

\* the loop condition of line 29
DownLoopCond == Len(dirs_to_check) > 0 /\ entry_path = None

\* the value of down_result and up_result before the search has returned
NotRun == <<"?">>

\* main() has not reached line 280
RunIdle ==
    /\ os_sep = PosixSep /\ asset_path = None /\ ue_bin_env = None /\ lfs_objects = {}
    /\ rpc = "idle" /\ cmds = <<>> /\ revision_output = None /\ revision = None
    /\ lfs_listing = <<>> /\ lfs_files_output = None /\ lookup_path = None
    /\ is_lfs = FALSE /\ env_media = <<>> /\ lfs_envs_output = None
    /\ lfs_media_dir = None /\ oid_reported = <<>> /\ oid_output = None
    /\ asset_oid = None /\ left_asset_path = None /\ tmp_dirs = {}
    /\ files = <<>> /\ tmp_path = None /\ raw_contents = None /\ cmd_parts = None

\* the state at line 277, find_git_root's locals set by lines 65-67
SearchInit ==
    /\ RunIdle
    /\ fs_markers \in SmallSubsets(AllDirs, MaxMarkers)
    /\ fs_gits \in SmallSubsets(AllDirs, MaxGits)
    /\ git_has_marker \in BOOLEAN
    /\ scan_desc \in BOOLEAN
    /\ cwd \in AllDirs
    /\ asset_is_file \in BOOLEAN
    /\ spc = "find_git_root"
    /\ path = cwd
    /\ entry_path = None
    /\ last_slash_index = 1
    /\ dirs_to_check = <<>>
    /\ git_root = None
    /\ project_path = None
    /\ scans = 0
    /\ git_scans = 0
    /\ down_result = NotRun
    /\ up_result = NotRun

FsUnchanged ==
    UNCHANGED <<fs_markers, fs_gits, git_has_marker, scan_desc, cwd, asset_is_file,
                run_vars>>

\* lines 69-76, one iteration
find_git_root_loop ==
    /\ spc = "find_git_root"
    /\ UpLoopCond(git_root)
    /\ git_root' = IF \E i \in 1..Len(Scandir(path)) : IsDotGit(Scandir(path)[i])
                   THEN path ELSE git_root
    /\ last_slash_index' = last_index(path, PosixSep)
    /\ path' = PySlice(path, 0, last_slash_index')
    /\ scans' = scans + 1
    /\ FsUnchanged
    /\ UNCHANGED <<spc, entry_path, dirs_to_check, project_path, git_scans,
                   down_result, up_result>>

\* lines 78-83: raise, or return git_root to main()
find_git_root_return ==
    /\ spc = "find_git_root"
    /\ ~UpLoopCond(git_root)
    /\ spc' = IF git_root = None THEN "failed" ELSE "get_valid_asset_path"
    /\ git_scans' = scans
    /\ FsUnchanged
    /\ UNCHANGED <<path, entry_path, last_slash_index, dirs_to_check, git_root,
                   project_path, scans, down_result, up_result>>

\* lines 98-108, then get_project_path's line 117 enters find_entry_in_dir
\* (lines 26-27) with start_dir = git_root
get_valid_asset_path ==
    /\ spc = "get_valid_asset_path"
    /\ IF asset_is_file
       THEN /\ spc' = "find_entry_in_dir"
            /\ entry_path' = None
            /\ dirs_to_check' = <<git_root>>
            /\ scans' = 0
       ELSE /\ spc' = "failed"
            /\ UNCHANGED <<entry_path, dirs_to_check, scans>>
    /\ FsUnchanged
    /\ UNCHANGED <<path, last_slash_index, git_root, project_path, git_scans,
                   down_result, up_result>>

\* lines 35-36: os.path.join(dir, subdir) with subdir a DirEntry, whose
\* filesystem path is entry.path
NewDirPath(dir, subdir) == PathJoin(dir, subdir.path, PosixSep)

\* line 30: dirs_to_check.pop() takes the last element
Pop(dirs) == [dir |-> dirs[Len(dirs)], rest |-> SubSeq(dirs, 1, Len(dirs) - 1)]

\* lines 29-40, one iteration
find_entry_in_dir_loop ==
    /\ spc = "find_entry_in_dir"
    /\ DownLoopCond
    /\ LET dir == Pop(dirs_to_check).dir
           entries == SelectSeq(Scandir(dir), NotDotGit)
           new_dirs == SelectSeq(entries, IsDir)
           matches == SelectSeq(entries, predicate)
       IN  /\ dirs_to_check' = Pop(dirs_to_check).rest
                   \o [i \in 1..Len(new_dirs) |-> NewDirPath(dir, new_dirs[i])]
           /\ entry_path' = IF Len(matches) > 0
                            THEN PathJoin(dir, matches[1].name, PosixSep)
                            ELSE entry_path
    /\ scans' = scans + 1
    /\ FsUnchanged
    /\ UNCHANGED <<spc, path, last_slash_index, git_root, project_path, git_scans,
                   down_result, up_result>>

\* line 42 returns to get_project_path; lines 119-120 enter
\* find_entry_in_dir_up (lines 46-48) when nothing was found
find_entry_in_dir_return ==
    /\ spc = "find_entry_in_dir"
    /\ ~DownLoopCond
    /\ down_result' = entry_path
    /\ IF entry_path = None
       THEN /\ spc' = "find_entry_in_dir_up"
            /\ path' = git_root
            /\ last_slash_index' = 1
            /\ scans' = 0
            /\ UNCHANGED project_path
       ELSE /\ spc' = "done"
            /\ project_path' = entry_path
            /\ UNCHANGED <<path, last_slash_index, scans>>
    /\ FsUnchanged
    /\ UNCHANGED <<entry_path, dirs_to_check, git_root, git_scans, up_result>>

\* lines 50-57, one iteration
find_entry_in_dir_up_loop ==
    /\ spc = "find_entry_in_dir_up"
    /\ UpLoopCond(entry_path)
    /\ entry_path' = IF \E i \in 1..Len(Scandir(path)) : predicate(Scandir(path)[i])
                     THEN path ELSE entry_path
    /\ last_slash_index' = last_index(path, PosixSep)
    /\ path' = PySlice(path, 0, last_slash_index')
    /\ scans' = scans + 1
    /\ FsUnchanged
    /\ UNCHANGED <<spc, dirs_to_check, git_root, project_path, git_scans,
                   down_result, up_result>>

\* line 59 returns to get_project_path, lines 122-128
find_entry_in_dir_up_return ==
    /\ spc = "find_entry_in_dir_up"
    /\ ~UpLoopCond(entry_path)
    /\ up_result' = entry_path
    /\ project_path' = entry_path
    /\ spc' = IF entry_path = None THEN "failed" ELSE "done"
    /\ FsUnchanged
    /\ UNCHANGED <<path, entry_path, last_slash_index, dirs_to_check, git_root,
                   scans, git_scans, down_result>>

SearchNext ==
    \/ find_git_root_loop
    \/ find_git_root_return
    \/ get_valid_asset_path
    \/ find_entry_in_dir_loop
    \/ find_entry_in_dir_return
    \/ find_entry_in_dir_up_loop
    \/ find_entry_in_dir_up_return

SpecSearch == SearchInit /\ [][SearchNext]_vars

---------------------------------------------------------------------------
(* What the searches are claimed to return, stated on the directory tree.  *)

\* directory d is dir itself or lies below it
IsUnder(d, dir) ==
    \/ d = dir
    \/ StartsWith(d, IF dir = RootDir THEN dir ELSE dir \o <<PosixSep>>)

\* the ancestors of directory p, p included
AncestorsOrSelf(p) == {d \in AllDirs : IsUnder(p, d)}

\* the directory of S with the most segments (S a non-empty chain)
Deepest(S) == CHOOSE d \in S : \A e \in S : NumSegments(e) <= NumSegments(d)

\* the entries below start_dir, outside any .git, that satisfy the predicate
MatchesBelow(start_dir) ==
    {PathJoin(d, MarkerName, PosixSep) : d \in {m \in fs_markers : IsUnder(m, start_dir)}}

\* C1: when find_entry_in_dir returns an entry, no entry outside .git that
\* satisfies the predicate lies at a smaller depth below the start directory.
C1_SearchDownReturnsShallowest ==
    (down_result # NotRun /\ down_result # None) =>
        \A m \in MatchesBelow(git_root) : NumSegments(m) >= NumSegments(down_result)

\* what an upward search from start for directories in S must give:
\* the nearest ancestor-or-self in S after k upward steps (k + 1 scans)
UpSearchIsNearest(start, S, result, nscans) ==
    LET A == AncestorsOrSelf(start) \cap S
    IN  IF A = {} THEN result = None
        ELSE /\ result = Deepest(A)
             /\ nscans = NumSegments(start) - NumSegments(Deepest(A)) + 1

\* C3: the upward search (find_git_root from the working directory,
\* find_entry_in_dir_up from the repository root) returns the nearest
\* ancestor-or-self directory that has a matching child, after exactly k
\* upward steps, the filesystem root included; otherwise it reports not-found.
C3_SearchUpFindsNearestAncestor ==
    /\ spc # "find_git_root" => UpSearchIsNearest(cwd, fs_gits, git_root, git_scans)
    /\ up_result # NotRun => UpSearchIsNearest(git_root, fs_markers, up_result, scans)

\* C4: whenever get_project_path succeeds, the path it returns is the path of
\* the .uproject file itself, found downward or by the upward fallback.
C4_ProjectPathIsDescriptorFile ==
    spc = "done" => EndsWith(project_path, DotUproject)

---------------------------------------------------------------------------
(* More of Python's string and path functions, used from line 280 on.      *)

IsSpace(c) == c \in {" ", "\t", "\n", "\r"}

\* the output used as it is
StripNothing(s) == s

\* s.strip()
Strip(s) ==
    LET keep == {i \in 1..Len(s) : ~IsSpace(s[i])}
    IN  IF keep = {} THEN <<>>
        ELSE SubSeq(s, CHOOSE i \in keep : \A j \in keep : i <= j,
                       CHOOSE i \in keep : \A j \in keep : i >= j)

\* s.splitlines(), for text whose line ends are "\n" (subprocess.run with an
\* encoding reads in text mode, which translates the other line ends)
RECURSIVE SplitLines(_)
SplitLines(s) ==
    IF s = <<>> THEN <<>>
    ELSE LET n == PyIndex(s, "\n")
         IN  IF n = -1 THEN <<s>>
             ELSE <<PySlice(s, 0, n)>> \o SplitLines(PySliceFrom(s, n + 1))

\* s.replace(a, b) for one-character a and b
Replace(s, a, b) == [i \in 1..Len(s) |-> IF s[i] = a THEN b ELSE s[i]]

\* [x for x in s.split(sp) if x]
RECURSIVE SplitNonEmpty(_, _)
SplitNonEmpty(s, sp) ==
    IF s = <<>> THEN <<>>
    ELSE LET n == PyIndex(s, sp)
             head == IF n = -1 THEN s ELSE PySlice(s, 0, n)
             tail == IF n = -1 THEN <<>> ELSE PySliceFrom(s, n + 1)
         IN  (IF head = <<>> THEN <<>> ELSE <<head>>) \o SplitNonEmpty(tail, sp)

\* sp.join(parts)
RECURSIVE JoinWith(_, _)
JoinWith(parts, sp) ==
    IF parts = <<>> THEN <<>>
    ELSE IF Len(parts) = 1 THEN parts[1]
    ELSE parts[1] \o <<sp>> \o JoinWith(Tail(parts), sp)

\* len(os.path.commonprefix([a, b])) for lists of segments
RECURSIVE CommonPrefixLen(_, _)
CommonPrefixLen(a, b) ==
    IF a = <<>> \/ b = <<>> \/ a[1] # b[1] THEN 0
    ELSE 1 + CommonPrefixLen(Tail(a), Tail(b))

\* os.path.relpath(p, start) for absolute, normalized p and start (on
\* Windows: on the same drive, which is then one more common segment)
RelPath(p, start, sp) ==
    LET start_list == SplitNonEmpty(start, sp)
        path_list == SplitNonEmpty(p, sp)
        i == CommonPrefixLen(start_list, path_list)
        rel_list == [k \in 1..(Len(start_list) - i) |-> <<".", ".">>]
                    \o SubSeq(path_list, i + 1, Len(path_list))
    IN  IF rel_list = <<>> THEN <<".">> ELSE JoinWith(rel_list, sp)

\* the separators os.path accepts: sep and altsep
PathSeps(sp) == IF sp = "\\" THEN {"\\", "/"} ELSE {sp}

\* s.rfind(c) for c any of the characters cs; -1 when there is none
RFind(s, cs) ==
    LET hits == {i \in 1..Len(s) : s[i] \in cs}
    IN  IF hits = {} THEN -1 ELSE (CHOOSE i \in hits : \A j \in hits : i >= j) - 1

\* where os.path.splitext(p) cuts p (genericpath._splitext): at the last dot,
\* when it follows the last separator and a character that is not a dot
SplitextIndex(p, sp) ==
    LET sepIndex == RFind(p, PathSeps(sp))
        dotIndex == RFind(p, {"."})
    IN  IF /\ dotIndex > sepIndex
           /\ \E k \in (sepIndex + 1)..(dotIndex - 1) : p[k + 1] # "."
        THEN dotIndex ELSE Len(p)

\* os.path.basename(p)
Basename(p, sp) == PySliceFrom(p, RFind(p, PathSeps(sp)) + 1)

\* os.path.join(a, b) on the platform whose separator is sp
OsPathJoin(a, b, sp) ==
    IF Len(b) > 0 /\ b[1] \in PathSeps(sp) THEN b
    ELSE IF a = <<>> \/ a[Len(a)] \in PathSeps(sp) THEN a \o b
    ELSE a \o <<sp>> \o b

---------------------------------------------------------------------------
(* The environment of a run: the platform, the paths main() has resolved   *)
(* by line 279, and what the external commands may print.                  *)

MaxLines == 2

MaxReported == 1

BoundedSeqs(S, n) == UNION {[1..k -> S] : k \in 0..n}

\* stdout of a command that printed these lines
RECURSIVE JoinLines(_)
JoinLines(ls) == IF ls = <<>> THEN <<>> ELSE ls[1] \o <<"\n">> \o JoinLines(Tail(ls))

ExitCodes == {0, 1}

Platforms == {"/", "\\"}

RepoRoot(sp) == IF sp = "/" THEN <<"/", "r">> ELSE <<"C", ":", "\\", "r">>

TmpRoot(sp) == IF sp = "/" THEN <<"/", "t">> ELSE <<"C", ":", "\\", "t">>

\* the assets F.u, C/F.u and C/F below the repository root
AssetRels == {<<<<"F", ".", "u">>>>, <<<<"C">>, <<"F", ".", "u">>>>, <<<<"C">>, <<"F">>>>}

AssetPaths(sp) == {JoinWith(<<RepoRoot(sp)>> \o rel, sp) : rel \in AssetRels}

UeBin == <<"U", "E">>

LogOutputs == {<<>>, <<"\n">>, <<" ", "\n">>, <<"a", "1", "\n">>, <<" ", "b", "2", "\n">>}

\* git lfs ls-files prints "<10 characters of the oid> * <path>"
LsFilesPrefix == <<"0", "1", "2", "3", "4", "5", "6", "7", "8", "9", " ", "*", " ">>

LfsListedPaths ==
    {<<"F", ".", "u">>, <<"C", "/", "F", ".", "u">>, <<"C", "/", "F">>,
     <<"C", "/", "F", ".", "u", "x">>}

LfsLines == {LsFilesPrefix \o p : p \in LfsListedPaths}

MediaDirs(sp) ==
    IF sp = "/" THEN {<<"/", "m">>, <<"/", "n">>}
    ELSE {<<"C", ":", "\\", "m">>, <<"C", ":", "\\", "n">>}

LocalMediaDirLabel ==
    <<"L", "o", "c", "a", "l", "M", "e", "d", "i", "a", "D", "i", "r", "=">>

OtherEnvLine == <<"T", "e", "m", "p", "D", "i", "r", "=", "x">>

Oids == {<<"a", "b", "c", "d", "e", "f">>, <<"a", "b", "e", "f", "c", "d">>}

OidLabel == <<"o", "i", "d", " ", "s", "h", "a", "2", "5", "6", ":">>

VersionLine == <<"v", "e", "r", "s", "i", "o", "n", " ", "1">>

Blobs == {<<>>, <<0, 255>>, <<13, 10>>}

\* where git-lfs keeps the object oid below media directory m
ObjectPath(m, oid, sp) ==
    m \o <<sp>> \o SubSeq(oid, 1, 2) \o <<sp>> \o SubSeq(oid, 3, 4) \o <<sp>> \o oid

\* the searches have returned: main() is past line 279
SearchDone ==
    /\ fs_markers = {} /\ fs_gits = {} /\ git_has_marker = FALSE /\ scan_desc = FALSE
    /\ cwd = git_root /\ asset_is_file = TRUE /\ spc = "done" /\ path = None
    /\ entry_path = None /\ last_slash_index = 1 /\ dirs_to_check = <<>>
    /\ scans = 0 /\ git_scans = 0 /\ down_result = NotRun /\ up_result = NotRun

\* the state at line 280
RunInit ==
    /\ os_sep \in Platforms
    /\ git_root = RepoRoot(os_sep)
    /\ project_path = OsPathJoin(git_root, MarkerName, os_sep)
    /\ SearchDone
    /\ asset_path \in AssetPaths(os_sep)
    /\ ue_bin_env \in {None, UeBin}
    /\ lfs_objects \in {{}, {ObjectPath(m, <<"a", "b", "c", "d", "e", "f">>, os_sep) :
                                m \in MediaDirs(os_sep)}}
    /\ rpc = "get_ue_bin_path"
    /\ cmds = <<>>
    /\ revision_output = None
    /\ revision = None
    /\ lfs_listing = <<>>
    /\ lfs_files_output = None
    /\ lookup_path = None
    /\ is_lfs = FALSE
    /\ env_media = <<>>
    /\ lfs_envs_output = None
    /\ lfs_media_dir = None
    /\ oid_reported = <<>>
    /\ oid_output = None
    /\ asset_oid = None
    /\ left_asset_path = None
    /\ tmp_dirs = {}
    /\ files = <<>>
    /\ tmp_path = None
    /\ raw_contents = None
    /\ cmd_parts = None

---------------------------------------------------------------------------
(* main(), lines 280-289, one action per function call that starts an      *)
(* external command or touches the filesystem.                             *)

LfsPrefixWidth == 13

MediaDirLabelWidth == 14

OidLabelWidth == 11

\* subprocess.run without check=True: a non-zero exit goes unnoticed
NeverRaises(rc) == FALSE

\* subprocess.run(..., check=True) raises CalledProcessError on a non-zero exit
Raises(rc) == rc # 0

\* one entry of cmds
Started(cmd, arg, rc) == [cmd |-> cmd, arg |-> arg, rc |-> rc]

get_git_relative_asset_path(root, asset) ==
    Replace(RelPath(asset, root, os_sep), "\\", "/")

\* a substring test in place of list membership
ListContainsSubstring(list, x) == \E i \in 1..Len(list) : Contains(list[i], x)

\* line 196: x in list
ListContains(list, x) == \E i \in 1..Len(list) : list[i] = x

\* line 194
lfs_files(output) ==
    LET lines == SplitLines(output)
    IN  [i \in 1..Len(lines) |-> PySliceFrom(lines[i], LfsPrefixWidth)]

HasMediaDirLabel(line) == Contains(line, LocalMediaDirLabel)

\* lines 212-213
lfs_media_dir_matches(output) ==
    LET lines == SelectSeq(SplitLines(output), HasMediaDirLabel)
    IN  [i \in 1..Len(lines) |-> PySliceFrom(lines[i], MediaDirLabelWidth)]

HasOidLabel(line) == Contains(line, OidLabel)

\* lines 224-225
asset_oid_matches(output) ==
    LET lines == SelectSeq(SplitLines(output), HasOidLabel)
    IN  [i \in 1..Len(lines) |-> PySliceFrom(lines[i], OidLabelWidth)]

\* lines 234-235
LeftAssetPath(media_dir, oid) ==
    OsPathJoin(OsPathJoin(OsPathJoin(media_dir, PySlice(oid, 0, 2), os_sep),
                          PySlice(oid, 2, 4), os_sep), oid, os_sep)

\* the check of line 238 left out
IsFileUnchecked(p) == TRUE

\* line 238: os.path.isfile
IsFile(p) == p \in lfs_objects

\* tempfile.mkdtemp(): a directory that did not exist
Mkdtemp == OsPathJoin(TmpRoot(os_sep), <<"x">>, os_sep)

\* lines 133-136
NewPath(tmp_dir, asset, rev) ==
    LET cut == SplitextIndex(asset, os_sep)
        asset_base_name == Basename(PySlice(asset, 0, cut), os_sep)
        new_name == asset_base_name \o <<"_">> \o rev \o PySliceFrom(asset, cut)
    IN  OsPathJoin(tmp_dir, new_name, os_sep)

\* the file opened in text mode on Windows: each "\n" is written as "\r\n"
RECURSIVE TextModeBytes(_)
TextModeBytes(bytes) ==
    IF bytes = <<>> THEN <<>>
    ELSE (IF bytes[1] = 10 THEN <<13, 10>> ELSE <<bytes[1]>>) \o TextModeBytes(Tail(bytes))

WriteFileTextMode(fs, p, bytes) ==
    [q \in DOMAIN fs \cup {p} |-> IF q = p THEN TextModeBytes(bytes) ELSE fs[q]]

\* lines 188-189: open(tmp_path, "wb") and write
WriteFile(fs, p, bytes) == [q \in DOMAIN fs \cup {p} |-> IF q = p THEN bytes ELSE fs[q]]

\* line 254: os.unlink
Unlink(fs, p) == [q \in DOMAIN fs \ {p} |-> fs[q]]

\* lines 202-206
create_diff_command_parts(ue_bin_path, proj, asset, second_asset_path) ==
    <<ue_bin_path, proj, <<"-", "d", "i", "f", "f">>, asset>>
    \o (IF second_asset_path # None THEN <<second_asset_path>> ELSE <<>>)

SearchUnchanged == UNCHANGED <<search_vars, run_env>>

\* line 280
get_ue_bin_path ==
    /\ rpc = "get_ue_bin_path"
    /\ rpc' = IF ue_bin_env = None THEN "failed" ELSE "git_find_last_revision"
    /\ SearchUnchanged
    /\ UNCHANGED <<cmds, rev_locals, classify_locals, lfs_locals, normal_locals,
                   cmd_parts>>

\* lines 281-282 and 170-180
git_find_last_revision ==
    /\ rpc = "git_find_last_revision"
    /\ \E rc \in ExitCodes, out \in LogOutputs :
        LET git_relative_asset_path == RelPath(asset_path, git_root, os_sep)
        IN  /\ cmds' = Append(cmds, Started("git log", git_relative_asset_path, rc))
            /\ IF Raises(rc)
               THEN /\ rpc' = "failed"
                    /\ UNCHANGED rev_locals
               ELSE /\ revision_output' = out
                    /\ revision' = Strip(out)
                    /\ rpc' = IF Strip(out) = <<>> THEN "failed" ELSE "git_is_lfs"
    /\ SearchUnchanged
    /\ UNCHANGED <<classify_locals, lfs_locals, normal_locals, cmd_parts>>

\* lines 284-289 and 192-197
git_is_lfs ==
    /\ rpc = "git_is_lfs"
    /\ \E rc \in ExitCodes, listing \in BoundedSeqs(LfsLines, MaxLines) :
        LET git_asset_path == get_git_relative_asset_path(git_root, asset_path)
            found == ListContains(lfs_files(JoinLines(listing)), git_asset_path)
        IN  /\ cmds' = Append(cmds, Started("git lfs ls-files", None, rc))
            /\ IF Raises(rc)
               THEN /\ rpc' = "failed"
                    /\ UNCHANGED classify_locals
               ELSE /\ lfs_listing' = listing
                    /\ lfs_files_output' = JoinLines(listing)
                    /\ lookup_path' = git_asset_path
                    /\ is_lfs' = found
                    /\ rpc' = IF found THEN "diff_lfs_env" ELSE "get_asset_temp_path"
    /\ SearchUnchanged
    /\ UNCHANGED <<rev_locals, lfs_locals, normal_locals, cmd_parts>>

\* lines 210-220
diff_lfs_env ==
    /\ rpc = "diff_lfs_env"
    /\ \E rc \in ExitCodes, media \in BoundedSeqs(MediaDirs(os_sep), MaxReported) :
        LET out == JoinLines(<<OtherEnvLine>>
                     \o [i \in 1..Len(media) |-> LocalMediaDirLabel \o media[i]])
        IN  /\ cmds' = Append(cmds, Started("git lfs env", None, rc))
            /\ IF Raises(rc)
               THEN /\ rpc' = "failed"
                    /\ UNCHANGED <<env_media, lfs_envs_output, lfs_media_dir>>
               ELSE /\ env_media' = media
                    /\ lfs_envs_output' = out
                    /\ IF Len(lfs_media_dir_matches(out)) = 0
                       THEN /\ rpc' = "failed"
                            /\ UNCHANGED lfs_media_dir
                       ELSE /\ rpc' = "diff_lfs_cat_file"
                            /\ lfs_media_dir' = lfs_media_dir_matches(out)[1]
    /\ SearchUnchanged
    /\ UNCHANGED <<rev_locals, classify_locals, oid_reported, oid_output, asset_oid,
                   left_asset_path, normal_locals, cmd_parts>>

\* lines 222-232
diff_lfs_cat_file ==
    /\ rpc = "diff_lfs_cat_file"
    /\ \E rc \in ExitCodes, oids \in BoundedSeqs(Oids, MaxReported) :
        LET git_asset_path == get_git_relative_asset_path(git_root, asset_path)
            out == JoinLines(<<VersionLine>>
                     \o [i \in 1..Len(oids) |-> OidLabel \o oids[i]])
        IN  /\ cmds' = Append(cmds, Started("git cat-file",
                                            revision \o <<":">> \o git_asset_path, rc))
            /\ IF Raises(rc)
               THEN /\ rpc' = "failed"
                    /\ UNCHANGED <<oid_reported, oid_output, asset_oid>>
               ELSE /\ oid_reported' = oids
                    /\ oid_output' = out
                    /\ IF Len(asset_oid_matches(out)) = 0
                       THEN /\ rpc' = "failed"
                            /\ UNCHANGED asset_oid
                       ELSE /\ rpc' = "diff_lfs_invoke"
                            /\ asset_oid' = asset_oid_matches(out)[1]
    /\ SearchUnchanged
    /\ UNCHANGED <<rev_locals, classify_locals, env_media, lfs_envs_output,
                   lfs_media_dir, left_asset_path, normal_locals, cmd_parts>>

\* lines 234-244
diff_lfs_invoke ==
    /\ rpc = "diff_lfs_invoke"
    /\ left_asset_path' = LeftAssetPath(lfs_media_dir, asset_oid)
    /\ IF ~IsFile(left_asset_path')
       THEN /\ rpc' = "failed"
            /\ UNCHANGED <<cmds, cmd_parts>>
       ELSE \E rc \in ExitCodes :
            /\ cmd_parts' = create_diff_command_parts(ue_bin_env, project_path,
                                                      left_asset_path', asset_path)
            /\ cmds' = Append(cmds, Started("diff", None, rc))
            /\ rpc' = IF Raises(rc) THEN "failed" ELSE "done"
    /\ SearchUnchanged
    /\ UNCHANGED <<rev_locals, classify_locals, env_media, lfs_envs_output,
                   lfs_media_dir, oid_reported, oid_output, asset_oid, normal_locals>>

\* line 248 and lines 131-139
get_asset_temp_path ==
    /\ rpc = "get_asset_temp_path"
    /\ tmp_dirs' = tmp_dirs \cup {Mkdtemp}
    /\ tmp_path' = NewPath(Mkdtemp, asset_path, revision)
    /\ rpc' = "git_download_asset_revision"
    /\ SearchUnchanged
    /\ UNCHANGED <<cmds, rev_locals, classify_locals, lfs_locals, files, raw_contents,
                   cmd_parts>>

\* lines 249-250 and 183-189
git_download_asset_revision ==
    /\ rpc = "git_download_asset_revision"
    /\ \E rc \in ExitCodes, blob \in Blobs :
        LET git_asset_path == get_git_relative_asset_path(git_root, asset_path)
        IN  /\ cmds' = Append(cmds, Started("git show",
                                            revision \o <<":">> \o git_asset_path, rc))
            /\ IF Raises(rc)
               THEN /\ rpc' = "failed"
                    /\ UNCHANGED <<files, raw_contents>>
               ELSE /\ raw_contents' = blob
                    /\ files' = WriteFile(files, tmp_path, blob)
                    /\ rpc' = "diff_normal_invoke"
    /\ SearchUnchanged
    /\ UNCHANGED <<rev_locals, classify_locals, lfs_locals, tmp_dirs, tmp_path,
                   cmd_parts>>

\* lines 251-253
diff_normal_invoke ==
    /\ rpc = "diff_normal_invoke"
    /\ \E rc \in ExitCodes :
        /\ cmd_parts' = create_diff_command_parts(ue_bin_env, project_path, tmp_path,
                                                  asset_path)
        /\ cmds' = Append(cmds, Started("diff", None, rc))
        /\ rpc' = IF Raises(rc) THEN "failed" ELSE "diff_normal_unlink"
    /\ SearchUnchanged
    /\ UNCHANGED <<rev_locals, classify_locals, lfs_locals, normal_locals>>

\* line 254
diff_normal_unlink ==
    /\ rpc = "diff_normal_unlink"
    /\ files' = Unlink(files, tmp_path)
    /\ rpc' = "done"
    /\ SearchUnchanged
    /\ UNCHANGED <<cmds, rev_locals, classify_locals, lfs_locals, tmp_dirs, tmp_path,
                   raw_contents, cmd_parts>>

RunNext ==
    \/ get_ue_bin_path
    \/ git_find_last_revision
    \/ git_is_lfs
    \/ diff_lfs_env
    \/ diff_lfs_cat_file
    \/ diff_lfs_invoke
    \/ get_asset_temp_path
    \/ git_download_asset_revision
    \/ diff_normal_invoke
    \/ diff_normal_unlink

Spec == RunInit /\ [][RunNext]_vars

---------------------------------------------------------------------------
(* What the pipeline is claimed to do.                                     *)

\* the asset's path relative to the repository root, with "/" separators
CanonicalRelPath ==
    LET rel == CHOOSE r \in AssetRels :
                   JoinWith(<<RepoRoot(os_sep)>> \o r, os_sep) = asset_path
    IN  JoinWith(rel, "/")

\* the command cmd was started and exited zero
Succeeded(cmd) == \E i \in 1..Len(cmds) : cmds[i].cmd = cmd /\ cmds[i].rc = 0

RunEnded == rpc \in {"done", "failed"}

DiffStarted == \E i \in 1..Len(cmds) : cmds[i].cmd = "diff"

\* C2: in Inline mode the temporary directory and the temporary file no
\* longer exist once the run has ended, on every exit path after creation.
C2_TempResourcesRemovedAtEnd ==
    RunEnded => (tmp_dirs = {} /\ DOMAIN files = {})

\* line (without its 13-character prefix) is exactly p
ListsExactly(line, p) ==
    /\ Len(line) = LfsPrefixWidth + Len(p)
    /\ SubSeq(line, LfsPrefixWidth + 1, Len(line)) = p

\* C5: git_is_lfs answers LFS if and only if some line of the listing, its
\* 13-character prefix removed, is exactly the asset's repo-relative path.
C5_LfsIffExactListedPath ==
    Succeeded("git lfs ls-files") =>
        (is_lfs <=> \E i \in 1..Len(lfs_listing) :
                        ListsExactly(lfs_listing[i], CanonicalRelPath))

\* a listed path contains the asset's path without being it, and the asset
\* is classified inline
C5_NearMissIsInline ==
    /\ Succeeded("git lfs ls-files")
    /\ ~is_lfs
    /\ \E i \in 1..Len(lfs_listing) :
           Contains(PySliceFrom(lfs_listing[i], LfsPrefixWidth), CanonicalRelPath)

\* C6: in LFS mode the left path is <media dir>/<oid[0:2]>/<oid[2:4]>/<oid>;
\* when the LocalMediaDir line or the oid line is absent, or that path is not
\* a regular file, the run fails and the diff tool is never started.
C6_LfsLeftPathOrFailure ==
    /\ left_asset_path # None =>
           left_asset_path = ObjectPath(env_media[1], oid_reported[1], os_sep)
    /\ (is_lfs /\ DiffStarted) =>
           /\ env_media # <<>>
           /\ oid_reported # <<>>
           /\ left_asset_path \in lfs_objects
           /\ cmd_parts[4] = left_asset_path
    /\ (Succeeded("git lfs env") /\ env_media = <<>>) => rpc = "failed"
    /\ (Succeeded("git cat-file") /\ oid_reported = <<>>) => rpc = "failed"
    /\ (left_asset_path # None /\ left_asset_path \notin lfs_objects) => rpc = "failed"

\* the object is missing from the media directory: the run has failed and
\* the diff tool was not started
C6_MissingObjectFails ==
    /\ left_asset_path # None
    /\ left_asset_path \notin lfs_objects
    /\ rpc = "failed"
    /\ ~DiffStarted

\* C7: each external command is started at most once, and once one has
\* exited non-zero no further command is started and the run has failed.
C7_NoRetryFailureIsFatal ==
    /\ \A i, j \in 1..Len(cmds) : i # j => cmds[i].cmd # cmds[j].cmd
    /\ \A i \in 1..(Len(cmds) - 1) : cmds[i].rc = 0
    /\ (\E i \in 1..Len(cmds) : cmds[i].rc # 0) => rpc = "failed"

\* a command exited non-zero after two others had succeeded
C7_LaterCommandFailed ==
    /\ Len(cmds) >= 3
    /\ cmds[Len(cmds)].rc # 0
    /\ rpc = "failed"

\* git log exited zero and printed nothing but whitespace
NoHistory ==
    /\ cmds # <<>>
    /\ cmds[1].rc = 0
    /\ \A i \in 1..Len(revision_output) : IsSpace(revision_output[i])

\* C8: when git log prints nothing (or only whitespace) the run fails before
\* any materialization: no temporary directory or file, no classification,
\* no blob retrieval or LFS lookup, no diff tool.
C8_NoHistoryFailsBeforeMaterialization ==
    NoHistory =>
        /\ rpc = "failed"
        /\ Len(cmds) = 1
        /\ tmp_dirs = {}
        /\ DOMAIN files = {}
        /\ lookup_path = None
        /\ cmd_parts = None

\* git log printed only whitespace
C8_WhitespaceOnlyRevision ==
    /\ NoHistory
    /\ revision_output # <<>>
    /\ rpc = "failed"

\* the last segment of the asset's path, cut at its last dot
AssetBaseAndExt ==
    LET rel == CHOOSE r \in AssetRels :
                   JoinWith(<<RepoRoot(os_sep)>> \o r, os_sep) = asset_path
        name == rel[Len(rel)]
        dots == {i \in 2..Len(name) : name[i] = "."}
        cut == IF dots = {} THEN Len(name) + 1
               ELSE CHOOSE i \in dots : \A j \in dots : i >= j
    IN  [base |-> SubSeq(name, 1, cut - 1), ext |-> SubSeq(name, cut, Len(name))]

\* C9: in Inline mode the diff tool's left argument is the temporary file
\* <base>_<revision><ext>, which holds exactly the bytes git show returned
\* when the tool is started, and its right argument is the asset's path.
C9_InlineLeftIsBlobCopy ==
    (DiffStarted /\ ~is_lfs) =>
        /\ Len(cmd_parts) = 5
        /\ cmd_parts[4] = tmp_path
        /\ cmd_parts[5] = asset_path
        /\ tmp_path = TmpRoot(os_sep) \o <<os_sep, "x", os_sep>> \o AssetBaseAndExt.base
                        \o <<"_">> \o revision \o AssetBaseAndExt.ext
        /\ rpc # "done" => (tmp_path \in DOMAIN files /\ files[tmp_path] = raw_contents)

\* the diff tool runs on a temporary copy of a blob that holds line ends
C9_DiffOnBinaryBlob ==
    /\ rpc = "diff_normal_unlink"
    /\ raw_contents = <<13, 10>>

\* C10: git log, git show, git cat-file and the LFS membership test all use
\* the asset's path relative to the repository root with "/" separators.
C10_AllUseNormalizedRepoPath ==
    /\ \A i \in 1..Len(cmds) :
        /\ cmds[i].cmd = "git log" => cmds[i].arg = CanonicalRelPath
        /\ cmds[i].cmd \in {"git show", "git cat-file"} =>
               cmds[i].arg = revision \o <<":">> \o CanonicalRelPath
    /\ Succeeded("git lfs ls-files") => lookup_path = CanonicalRelPath

===========================================================================
